---- MODULE Spec2Model ----
(***************************************************************************)
(* Model of the OLX graphics-card scraper.  Two variants of the scraper    *)
(* exist in the repository: olx_scraper/olx_scraper.py (listing cards are  *)
(* parsed in place, fetches are retried, the session is closed in a        *)
(* finally block) and main_oop.py (every offer's detail page is fetched,   *)
(* no retry, no close).  Both are modelled; definitions of main_oop.py     *)
(* carry the prefix main_oop_.                                             *)
(*                                                                         *)
(* Strings are TLA+ strings.  The module is ASCII, so the Polish letters   *)
(* of the site's markers are written without diacritics: "zl" stands for   *)
(* the currency suffix, "Zamienie" for the barter marker, "Uzywane" for    *)
(* the used-condition token.  No operation of the scraper distinguishes    *)
(* these letters from other non-digit, non-space characters.               *)
(***************************************************************************)
EXTENDS Integers, Sequences, FiniteSets, TLC

VARIABLES
    variant,        \* which scraper runs: "olx_scraper" or "main_oop"
    page_limit,     \* self.page_limit
    pc,             \* position inside scrape()
    current_url,    \* scrape's current_url, an Optional string
    pages_parsed,   \* scrape's pages_parsed
    all_offers,     \* scrape's all_offers
    session,        \* self.session: "open" or "closed"
    html,           \* the page fetch_page returned to scrape, None before the first
    attempts,       \* requests for the current url that have failed
    pages_fetched,  \* listing pages fetch_page has returned to scrape
    visited,        \* the listing pages scrape has processed, in order
    fetch_failed,   \* some request for a listing page has failed
    outcome,        \* how scrape() was left: "running", "returned", "raised"
    exception,      \* the class of the exception that left scrape(), or "None"
    in_title,       \* resolver input: the text given to find_gpu_model
    resolved,       \* resolver output: what find_gpu_model did with title
    in_offer,       \* offer parser input: a listing card or a detail page
    parsed,         \* offer parser output: what parse_advert did with offer
    fp_retries,     \* fetch_page's parameter retries
    fp_pc,          \* position inside fetch_page: "sleep", "get", "done"
    fp_i,           \* iterations of fetch_page's for loop completed
    fp_log,         \* what fetch_page did so far: its sleeps and its requests
    fp_result,      \* what fetch_page returned or raised
    export_adverts, \* the list handed to export_to_txt
    export_files,   \* the files in the working directory, in order of creation
    export_result   \* what the last call of export_to_txt returned or raised

vars == << variant, page_limit, pc, current_url, pages_parsed, all_offers,
           session, html, attempts, pages_fetched, visited, fetch_failed,
           outcome, exception, in_title, resolved, in_offer, parsed,
           fp_retries, fp_pc, fp_i, fp_log, fp_result, export_adverts, export_files, export_result >>

crawlVars == << page_limit, pc, current_url, pages_parsed, all_offers,
                session, html, attempts, pages_fetched, visited, fetch_failed,
                outcome, exception >>

resolveVars == << in_title, resolved >>

parseVars == << in_offer, parsed >>

fetchVars == << fp_retries, fp_pc, fp_i, fp_log, fp_result >>

exportVars == << export_adverts, export_files, export_result >>

Variants == {"olx_scraper", "main_oop"}

----------------------------------------------------------------------------
(* Python values *)

\* a normal return of value v
Return(v) == [exc |-> "None", val |-> v]

\* an exception of class e carrying message tag m
Raise(e, m) == [exc |-> e, val |-> m]

\* a call that has not been made yet
Pending == [exc |-> "pending", val |-> ""]

\* the result of soup.find(...): an element with its text, or None
NoElement == [present |-> FALSE, text |-> ""]

Element(t) == [present |-> TRUE, text |-> t]

----------------------------------------------------------------------------
(* str methods *)

Upper == "ABCDEFGHIJKLMNOPQRSTUVWXYZ"

Lower == "abcdefghijklmnopqrstuvwxyz"

Digits == "0123456789"

\* position of character c in string s, 0 when absent
IndexOf(c, s) ==
    IF \E i \in 1..Len(s) : SubSeq(s, i, i) = c
    THEN CHOOSE i \in 1..Len(s) :
            /\ SubSeq(s, i, i) = c
            /\ \A j \in 1..(i - 1) : SubSeq(s, j, j) # c
    ELSE 0

LowerChar(c) ==
    LET i == IndexOf(c, Upper) IN
    IF i > 0 THEN SubSeq(Lower, i, i) ELSE c

RECURSIVE str_lower(_)
\* str.lower()
str_lower(s) ==
    IF s = "" THEN ""
    ELSE LowerChar(SubSeq(s, 1, 1)) \o str_lower(SubSeq(s, 2, Len(s)))

\* s.startswith(p)
startswith(s, p) == Len(p) <= Len(s) /\ SubSeq(s, 1, Len(p)) = p

RECURSIVE str_remove(_, _)
\* s.replace(p, ""): left to right, non-overlapping
str_remove(s, p) ==
    IF s = "" THEN ""
    ELSE IF startswith(s, p) THEN str_remove(SubSeq(s, Len(p) + 1, Len(s)), p)
    ELSE SubSeq(s, 1, 1) \o str_remove(SubSeq(s, 2, Len(s)), p)

\* p in s
str_contains(s, p) ==
    \E i \in 1..(Len(s) - Len(p) + 1) : SubSeq(s, i, i + Len(p) - 1) = p

RECURSIVE str_strip(_)
\* s.strip() for the space character
str_strip(s) ==
    IF s = "" THEN ""
    ELSE IF SubSeq(s, 1, 1) = " " THEN str_strip(SubSeq(s, 2, Len(s)))
    ELSE IF SubSeq(s, Len(s), Len(s)) = " " THEN str_strip(SubSeq(s, 1, Len(s) - 1))
    ELSE s

----------------------------------------------------------------------------
(* The catalog *)

\* self.gpu_models.  "RTX 4090RX 460" is one entry: the source has no comma
\* between the literals "RTX 4090" and "RX 460", which Python concatenates.
gpu_models == <<
    "GTX 1050", "GTX 1050 Ti", "GTX 1060", "GTX 1070",
    "GTX 1070 Ti", "GTX 1080", "GTX 1080 Ti", "GTX 1650",
    "GTX 1650 Super", "GTX 1660", "GTX 1660 Ti", "GTX 1660 Super",
    "RTX 2060", "RTX 2060 Super", "RTX 2070", "RTX 2070 Super",
    "RTX 2080", "RTX 2080 Super", "RTX 2080 Ti", "RTX 3060",
    "RTX 3060 Ti", "RTX 3070", "RTX 3070 Ti", "RTX 3080",
    "RTX 3080 Ti", "RTX 3090", "RTX 3090 Ti", "RTX 4060",
    "RTX 4060 Ti", "RTX 4070", "RTX 4070 Ti", "RTX 4080",
    "RTX 4090RX 460", "RX 470", "RX 480", "RX 550",
    "RX 5500", "RX 5500 XT", "RX 560", "RX 5600",
    "RX 5600 XT", "RX 570", "RX 5700", "RX 5700 XT",
    "RX 580", "RX 590", "RX 6500", "RX 6500 XT",
    "RX 6600", "RX 6600 XT", "RX 6650 XT", "RX 6700",
    "RX 6700 XT", "RX 6750 XT", "RX 6800", "RX 6800 XT",
    "RX 6900 XT", "RX 6950 XT", "RX 7600", "RX 7700 XT",
    "RX 7800 XT", "RX 7900 XT", "RX 7900 XTX", "A380",
    "A580", "A750", "A770"
>>

Range(s) == {s[i] : i \in DOMAIN s}

----------------------------------------------------------------------------
(* Model resolver *)

\* text.lower().replace(" ", "")
text_lower(text) == str_remove(str_lower(text), " ")

\* model.strip().replace(" ", ""): the catalog entry is not lower-cased
model_lower_cased(model) == str_remove(str_strip(model), " ")

\* model.lower().strip().replace(" ", "")
model_lower(model) == str_remove(str_strip(str_lower(model)), " ")

\* model_lower of every catalog entry, by position in the catalog
gpu_models_lower == [i \in DOMAIN gpu_models |-> model_lower(gpu_models[i])]

RECURSIVE matches_from(_, _)
\* the loop over self.gpu_models from position i on, for a normalized text t
matches_from(t, i) ==
    IF i > Len(gpu_models) THEN << >>
    ELSE IF str_contains(t, gpu_models_lower[i])
         THEN << gpu_models[i] >> \o matches_from(t, i + 1)
         ELSE matches_from(t, i + 1)

\* the list `matches`: the catalog entries contained in the text, in catalog order
matches(text) == matches_from(text_lower(text), 1)

\* max(ms, key=len): the first element of greatest length
max_key_len(ms) ==
    ms[CHOOSE i \in DOMAIN ms :
            /\ \A j \in DOMAIN ms : Len(ms[j]) <= Len(ms[i])
            /\ \A j \in 1..(i - 1) : Len(ms[j]) < Len(ms[i])]

\* OLXScraper.find_gpu_model of olx_scraper.py
find_gpu_model(text) ==
    LET ms == matches(text) IN
    IF Len(ms) \in {1, 3} THEN Return(max_key_len(ms))
    ELSE IF Len(ms) = 0 THEN Raise("ValueError", "No matches found")
    ELSE Raise("ValueError", "Multiple matches found")

\* OLXScraper.find_gpu_model of main_oop.py
main_oop_find_gpu_model(text) ==
    LET ms == matches(text) IN
    IF Len(ms) = 1 THEN Return(ms[1])
    ELSE IF Len(ms) = 0 THEN Raise("ValueError", "No matches found")
    ELSE Raise("ValueError", "Multiple matches found")

\* titles that are not a catalog entry in some spelling
ExtraTitles == {
    "", "Karta graficzna MSI", "RTX 4090", "RX 460", "RX 5800",
    "RTX 3080 Ti 12GB", "Sapphire RX 580 8GB", "rtx  3070 ", "Gigabyte rx 5700 xt 8gb",
    "GTX 1060 A770", "A380 A580", "GTX 1050 RTX 2060 A380", "A380 RX 470 RX 480",
    "A380 A580 A750 A770", "RX 580 RX 5800", "Zamiana GTX 1080 Ti na RTX 3070" }

\* every catalog entry as stored, lower-cased, and with its spaces removed
CatalogTitles ==
    UNION { {m, str_lower(m), str_remove(m, " "), " " \o m \o " "} : m \in Range(gpu_models) }

Titles == CatalogTitles \cup ExtraTitles

----------------------------------------------------------------------------------------------------------------------------------------
(* int(str) *)

\* position of the first occurrence of p in s, 0 when absent (s.find(p) + 1)
str_find(s, p) ==
    IF str_contains(s, p)
    THEN CHOOSE i \in 1..(Len(s) - Len(p) + 1) :
            /\ SubSeq(s, i, i + Len(p) - 1) = p
            /\ \A j \in 1..(i - 1) : SubSeq(s, j, j + Len(p) - 1) # p
    ELSE 0

\* s.split(sep)[0]
split_0(s, sep) ==
    IF str_find(s, sep) = 0 THEN s ELSE SubSeq(s, 1, str_find(s, sep) - 1)

\* s.split(sep)[1:] joined again: what follows the first sep
split_rest(s, sep) == SubSeq(s, str_find(s, sep) + Len(sep), Len(s))

IsDigit(c) == IndexOf(c, Digits) > 0

RECURSIVE digits_value(_, _)
\* the number written by the digits of s, after the digits already read as acc
digits_value(s, acc) ==
    IF s = "" THEN acc
    ELSE digits_value(SubSeq(s, 2, Len(s)), 10 * acc + (IndexOf(SubSeq(s, 1, 1), Digits) - 1))

\* the literal grammar of int(): digits, single underscores only between digits
IsIntBody(s) ==
    /\ s # ""
    /\ IsDigit(SubSeq(s, 1, 1))
    /\ IsDigit(SubSeq(s, Len(s), Len(s)))
    /\ \A i \in 1..Len(s) : IsDigit(SubSeq(s, i, i)) \/ SubSeq(s, i, i) = "_"
    /\ \A i \in 1..(Len(s) - 1) : ~(SubSeq(s, i, i) = "_" /\ SubSeq(s, i + 1, i + 1) = "_")

\* int(s): surrounding blanks and one sign are accepted
int(s) ==
    LET t    == str_strip(s)
        sign == IF t # "" /\ SubSeq(t, 1, 1) \in {"+", "-"} THEN SubSeq(t, 1, 1) ELSE ""
        body == SubSeq(t, Len(sign) + 1, Len(t))
    IN  IF IsIntBody(body)
        THEN Return((IF sign = "-" THEN -1 ELSE 1) * digits_value(str_remove(body, "_"), 0))
        ELSE Raise("ValueError", "invalid literal for int()")

----------------------------------------------------------------------------
(* Offer parser of olx_scraper.py *)

\* an Optional value is a sequence of at most one element
None == << >>

Some(v) == << v >>

\* the dataclass Advert of olx_scraper.py
Advert(model, price, state, raw_title) ==
    [model |-> model, price |-> price, state |-> state, raw_title |-> raw_title]

\* the match statement on the condition element's text
match_state(state_element) ==
    IF ~state_element.present THEN "error"
    ELSE IF state_element.text = "Uzywane" THEN "used"
    ELSE IF state_element.text = "Nowe" THEN "new"
    ELSE IF state_element.text = "Uszkodzone" THEN "broken"
    ELSE "error"

\* the string `price` derived from a non-barter price text
price_string(price_text) ==
    IF price_text # ""
    THEN split_0(str_remove(str_remove(str_remove(price_text, "zl"), " "), "donegocjacji"), ",")
    ELSE ""

\* parse_advert without its except clause: the resolver's ValueError leaves it
parse_advert_no_except(card) ==
    LET title      == IF card.h6.present THEN card.h6.text ELSE ""
        price_text == IF card.price.present THEN card.price.text ELSE ""
        price      == int(price_string(price_text))
        state      == match_state(card.state)
        model      == find_gpu_model(title)
    IN  IF str_contains(price_text, "Zamienie") THEN Return(None)
        ELSE IF model.exc = "None" /\ price.exc = "None"
             THEN Return(Some(Advert(model.val, price.val, state, title)))
        ELSE Raise("ValueError", "invalid literal for int()")

\* OLXScraper.parse_advert of olx_scraper.py on a listing card
\* [h6, price, state : elements found in the card]
parse_advert(card) ==
    LET title      == IF card.h6.present THEN card.h6.text ELSE ""
        price_text == IF card.price.present THEN card.price.text ELSE ""
        price      == int(price_string(price_text))
        state      == match_state(card.state)
        model      == find_gpu_model(title)
    IN  IF str_contains(price_text, "Zamienie") THEN Return(None)
        ELSE IF model.exc = "None" /\ price.exc = "None"
             THEN Return(Some(Advert(model.val, price.val, state, title)))
        \* except ValueError: int(price) is evaluated again in the handler
        ELSE IF price.exc = "None"
             THEN Return(Some(Advert("", price.val, "error", title)))
             ELSE Raise("ValueError", "invalid literal for int()")

----------------------------------------------------------------------------
(* Offer parser of main_oop.py *)

\* the dataclass Advert of main_oop.py
main_oop_Advert(model, price, state) == [model |-> model, price |-> price, state |-> state]

\* the values of the enum State of main_oop.py
main_oop_State == {"Uzywane", "Nowe", "Uszkodzone"}

\* the texts of the li elements that contain "Stan:"
state_lis(lis) == SelectSeq(lis, LAMBDA t : str_contains(t, "Stan:"))

\* parse_advert of main_oop.py with `price is not None` in place of `price`
main_oop_parse_advert_zero_price(detail) ==
    LET price      == int(str_remove(split_0(detail.h3.text, " zl"), " "))
        found      == main_oop_find_gpu_model(detail.h4.text)
        model      == IF detail.title_div /\ found.exc = "None" THEN found.val ELSE "Unknown"
        lis        == IF detail.state_ul THEN state_lis(detail.li) ELSE << >>
        state_text == str_strip(split_0(split_rest(lis[1], "Stan: "), "Stan: "))
        has_price  == detail.price_div
    IN  IF ~detail.ok THEN Raise("RequestException", "request failed")
        ELSE IF detail.price_div /\ ~detail.h3.present
             THEN Raise("AttributeError", "'NoneType' object has no attribute 'text'")
        ELSE IF detail.price_div /\ price.exc # "None" THEN price
        ELSE IF detail.title_div /\ ~detail.h4.present
             THEN Raise("AttributeError", "'NoneType' object has no attribute 'text'")
        ELSE IF lis # << >> /\ ~str_contains(lis[1], "Stan: ")
             THEN Raise("IndexError", "list index out of range")
        ELSE IF lis # << >> /\ state_text \notin main_oop_State
             THEN Raise("ValueError", "not a valid State")
        ELSE IF has_price /\ lis # << >>
             THEN Return(main_oop_Advert(model, price.val, state_text))
        ELSE Raise("ValueError", "Unable to create Advert instance: missing required data")

\* OLXScraper.parse_advert of main_oop.py on an offer's detail page
\* [ok: the request succeeded, price_div / title_div / state_ul: containers
\*  found, h3 / h4: elements found inside them, li: texts of the list items]
main_oop_parse_advert(detail) ==
    LET price      == int(str_remove(split_0(detail.h3.text, " zl"), " "))
        found      == main_oop_find_gpu_model(detail.h4.text)
        model      == IF detail.title_div /\ found.exc = "None" THEN found.val ELSE "Unknown"
        lis        == IF detail.state_ul THEN state_lis(detail.li) ELSE << >>
        state_text == str_strip(split_0(split_rest(lis[1], "Stan: "), "Stan: "))
        has_price  == detail.price_div /\ price.val # 0
    IN  IF ~detail.ok THEN Raise("RequestException", "request failed")
        ELSE IF detail.price_div /\ ~detail.h3.present
             THEN Raise("AttributeError", "'NoneType' object has no attribute 'text'")
        ELSE IF detail.price_div /\ price.exc # "None" THEN price
        ELSE IF detail.title_div /\ ~detail.h4.present
             THEN Raise("AttributeError", "'NoneType' object has no attribute 'text'")
        ELSE IF lis # << >> /\ ~str_contains(lis[1], "Stan: ")
             THEN Raise("IndexError", "list index out of range")
        ELSE IF lis # << >> /\ state_text \notin main_oop_State
             THEN Raise("ValueError", "not a valid State")
        ELSE IF has_price /\ lis # << >>
             THEN Return(main_oop_Advert(model, price.val, state_text))
        ELSE Raise("ValueError", "Unable to create Advert instance: missing required data")

----------------------------------------------------------------------------
(* Page parser *)

\* A listing page as BeautifulSoup presents it to the scraper:
\* [offers_div: the offers container is found, offers: the offer cards in it,
\*  pagination_list: the ul is found, forward: the forward control is found
\*  in it, href: the control's href attribute]

\* OLXScraper.get_next_page, the same in both files
get_next_page(soup) ==
    IF soup.pagination_list /\ soup.forward /\ soup.href.present
    THEN Some("https://www.olx.pl" \o soup.href.text)
    ELSE None

RECURSIVE offers_loop(_, _)
\* the for loop of get_offers of olx_scraper.py over the cards still to parse
offers_loop(offers, adverts) ==
    IF offers = << >> THEN Return(adverts)
    ELSE LET parsed_offer == parse_advert(Head(offers)) IN
         IF parsed_offer.exc # "None" THEN parsed_offer
         ELSE offers_loop(Tail(offers), adverts \o parsed_offer.val)

\* OLXScraper.get_offers of olx_scraper.py
get_offers(soup) ==
    IF soup.offers_div THEN offers_loop(soup.offers, << >>) ELSE Return(<< >>)

RECURSIVE main_oop_offers_loop(_, _)
\* the for loop of get_offers of main_oop.py; a card is
\* [a: the card's link is found, href: the link has an href, detail: the page behind it]
main_oop_offers_loop(offers, adverts) ==
    IF offers = << >> THEN Return(adverts)
    ELSE LET offer_0 == Head(offers)
             parsed_offer == main_oop_parse_advert(offer_0.detail)
         IN  IF ~(offer_0.a /\ offer_0.href)
             THEN main_oop_offers_loop(Tail(offers), adverts)
             ELSE IF parsed_offer.exc = "None"
             THEN main_oop_offers_loop(Tail(offers), Append(adverts, parsed_offer.val))
             \* except ValueError: continue
             ELSE IF parsed_offer.exc = "ValueError"
             THEN main_oop_offers_loop(Tail(offers), adverts)
             ELSE parsed_offer

\* OLXScraper.get_offers of main_oop.py
main_oop_get_offers(soup) ==
    IF soup.offers_div THEN main_oop_offers_loop(soup.offers, << >>) ELSE Return(<< >>)

\* fetch_page's default for its parameter retries, olx_scraper.py
retries == 3

----------------------------------------------------------------------------
(* Inputs *)

TitleTexts == {"RTX 3070", "Sapphire RX 580 8GB", "RTX 3080 Ti 12GB", "Karta graficzna MSI", ""}

PriceTexts == {
    "1 500 zl", "2 999,99 zl", "2000 zl do negocjacji", "Cena do negocjacji 2000 zl",
    "Zamienie na laptopa", "Zamienie lub 900 zl", "Za darmo", "-500 zl", "0 zl", "1_200 zl", "" }

StateTexts == {"Uzywane", "Nowe", "Uszkodzone", "Nieznany"}

Elements(texts) == {NoElement} \cup {Element(t) : t \in texts}

\* the offer cards of olx_scraper.py's listing pages
Cards == [h6 : Elements(TitleTexts), price : Elements(PriceTexts), state : Elements(StateTexts)]

LiTexts == {<< >>, <<"Marka: MSI">>, <<"Prywatne", "Stan: Uzywane">>, <<"Stan: Nowe ">>,
            <<"Stan: Uszkodzone">>, <<"Stan:Nowe">>, <<"Stan: Idealny">>}

DetailPrices == Elements({"1 500 zl", "0 zl", "Zamienie", "-500 zl"})

DetailTitles == Elements({"RTX 3070", "RTX 3080 Ti 12GB", "Karta graficzna MSI"})

\* the detail pages main_oop.py requests, as the parser sees them: an element
\* inside a container is found only when the container is
DetailPages ==
    { d \in [ok : BOOLEAN, price_div : BOOLEAN, h3 : DetailPrices, title_div : BOOLEAN,
             h4 : DetailTitles, state_ul : BOOLEAN, li : LiTexts] :
        /\ (~d.price_div => d.h3 = NoElement)
        /\ (~d.title_div => d.h4 = NoElement)
        /\ (~d.state_ul => d.li = << >>)
        /\ (~d.ok => ~d.price_div /\ ~d.title_div /\ ~d.state_ul) }

\* most offer cards on one listing page
MaxOffers == 1

\* greatest page_limit the scraper is constructed with
MaxPageLimit == 2

\* BASE_URL
BASE_URL == "https://www.olx.pl/elektronika/komputery/podzespoly-i-czesci/karty-graficzne/"

SeqUpTo(S, n) == UNION {[1..k -> S] : k \in 0..n}

\* the cards on the listing pages served to olx_scraper.py: a priced offer, a
\* barter offer, an offer without a price element, an offer whose title
\* matches two catalog entries, an offer whose price text carries a sign
CrawlCards == {
    [h6 |-> Element("RTX 3070"), price |-> Element("1 500 zl"), state |-> Element("Uzywane")],
    [h6 |-> Element("Sapphire RX 580 8GB"), price |-> Element("Zamienie na laptopa"),
     state |-> Element("Nowe")],
    [h6 |-> Element("RTX 3070"), price |-> NoElement, state |-> Element("Uzywane")],
    [h6 |-> Element("RTX 3080 Ti 12GB"), price |-> Element("2 999,99 zl"),
     state |-> Element("Uszkodzone")],
    [h6 |-> Element("RTX 3070"), price |-> Element("-500 zl"), state |-> Element("Nowe")] }

\* the cards on the listing pages served to main_oop.py: an offer whose detail
\* page is complete, one whose detail page has no condition list, one whose
\* detail page cannot be fetched, one whose price container has no h3
MainOopCrawlCards == {
    [a |-> TRUE, href |-> TRUE,
     detail |-> [ok |-> TRUE, price_div |-> TRUE, h3 |-> Element("1 500 zl"), title_div |-> TRUE,
                 h4 |-> Element("RTX 3070"), state_ul |-> TRUE, li |-> <<"Prywatne", "Stan: Uzywane">>]],
    [a |-> TRUE, href |-> TRUE,
     detail |-> [ok |-> TRUE, price_div |-> TRUE, h3 |-> Element("1 500 zl"), title_div |-> TRUE,
                 h4 |-> Element("RTX 3070"), state_ul |-> FALSE, li |-> << >>]],
    [a |-> TRUE, href |-> TRUE,
     detail |-> [ok |-> FALSE, price_div |-> FALSE, h3 |-> NoElement, title_div |-> FALSE,
                 h4 |-> NoElement, state_ul |-> FALSE, li |-> << >>]],
    [a |-> TRUE, href |-> TRUE,
     detail |-> [ok |-> TRUE, price_div |-> TRUE, h3 |-> NoElement, title_div |-> TRUE,
                 h4 |-> Element("RTX 3070"), state_ul |-> TRUE, li |-> <<"Stan: Nowe ">>]] }

\* the listing pages over a set of cards: a container that is not found has
\* no cards, a control that is not found has no href
PagesOver(cards) ==
    { p \in [offers_div : BOOLEAN, offers : SeqUpTo(cards, MaxOffers), pagination_list : BOOLEAN,
             forward : BOOLEAN, href : Elements({"/karty-graficzne/?page=2"})] :
        /\ (~p.offers_div => p.offers = << >>)
        /\ (~p.pagination_list => ~p.forward)
        /\ (~p.forward => ~p.href.present) }

Pages == PagesOver(CrawlCards)

MainOopPages == PagesOver(MainOopCrawlCards)

\* get_offers on every page of Pages, tabulated once (@@ makes the table explicit)
get_offers_on == [p \in Pages |-> get_offers(p)] @@ << >>

\* get_offers of main_oop.py on every page of MainOopPages, tabulated once
main_oop_get_offers_on == [p \in MainOopPages |-> main_oop_get_offers(p)] @@ << >>

----------------
(* Resolver specification: find_gpu_model applied to one title *)

CrawlIdle ==
    /\ page_limit = 1
    /\ pc = "idle"
    /\ current_url = None
    /\ pages_parsed = 0
    /\ all_offers = << >>
    /\ session = "open"
    /\ html = None
    /\ attempts = 0
    /\ pages_fetched = 0
    /\ visited = << >>
    /\ fetch_failed = FALSE
    /\ outcome = "running"
    /\ exception = "None"

ParseIdle == in_offer = NoElement /\ parsed = Pending

FetchIdle ==
    /\ fp_retries = retries
    /\ fp_pc = "idle"
    /\ fp_i = 0
    /\ fp_log = << >>
    /\ fp_result = Pending

ExportIdle == export_adverts = << >> /\ export_files = << >> /\ export_result = Pending

InitResolve ==
    /\ variant \in Variants
    /\ in_title \in Titles
    /\ resolved = Pending
    /\ ParseIdle
    /\ CrawlIdle
    /\ FetchIdle
    /\ ExportIdle

\* a call find_gpu_model(title) on the scraper of olx_scraper.py
ResolveOlx ==
    /\ variant = "olx_scraper"
    /\ resolved = Pending
    /\ resolved' = find_gpu_model(in_title)
    /\ UNCHANGED << variant, in_title, parseVars, crawlVars, fetchVars, exportVars >>

\* a call find_gpu_model(title) on the scraper of main_oop.py
ResolveMainOop ==
    /\ variant = "main_oop"
    /\ resolved = Pending
    /\ resolved' = main_oop_find_gpu_model(in_title)
    /\ UNCHANGED << variant, in_title, parseVars, crawlVars, fetchVars, exportVars >>

NextResolve == ResolveOlx \/ ResolveMainOop

SpecResolve == InitResolve /\ [][NextResolve]_vars

Called == resolved # Pending

----------------------------------------------------------------------------
(* Offer parser specification: parse_advert applied to one offer *)

ResolveIdle == in_title = "" /\ resolved = Pending

InitParse ==
    /\ \/ variant = "olx_scraper" /\ in_offer \in Cards
       \/ variant = "main_oop" /\ in_offer \in DetailPages
    /\ parsed = Pending
    /\ ResolveIdle
    /\ CrawlIdle
    /\ FetchIdle
    /\ ExportIdle

\* a call parse_advert(offer) on the scraper of olx_scraper.py
ParseAdvert ==
    /\ variant = "olx_scraper"
    /\ pc = "idle"
    /\ parsed = Pending
    /\ parsed' = parse_advert(in_offer)
    /\ UNCHANGED << variant, in_offer, resolveVars, crawlVars, fetchVars, exportVars >>

\* a call parse_advert(url) on the scraper of main_oop.py, offer being the page at url
MainOopParseAdvert ==
    /\ variant = "main_oop"
    /\ pc = "idle"
    /\ parsed = Pending
    /\ parsed' = main_oop_parse_advert(in_offer)
    /\ UNCHANGED << variant, in_offer, resolveVars, crawlVars, fetchVars, exportVars >>

NextParse == ParseAdvert \/ MainOopParseAdvert

SpecParse == InitParse /\ [][NextParse]_vars

----------------------------------------------------------------------------
(* Crawl specification: one call of scrape() *)

InitCrawl ==
    /\ variant \in Variants
    /\ page_limit \in 1..MaxPageLimit
    /\ pc = "while"
    /\ current_url = Some(BASE_URL)
    /\ pages_parsed = 0
    /\ all_offers = << >>
    /\ session = "open"
    /\ html = None
    /\ attempts = 0
    /\ pages_fetched = 0
    /\ visited = << >>
    /\ fetch_failed = FALSE
    /\ outcome = "running"
    /\ exception = "None"
    /\ ResolveIdle
    /\ ParseIdle
    /\ FetchIdle
    /\ ExportIdle

\* the while condition: current_url and pages_parsed < self.page_limit
while_condition == current_url # None /\ current_url # Some("") /\ pages_parsed < page_limit

\* the finally block of scrape of olx_scraper.py
finally == session' = "closed"

\* the while condition holds: scrape calls fetch_page(current_url)
EnterLoop ==
    /\ pc = "while"
    /\ while_condition
    /\ pc' = "fetch_page"
    /\ attempts' = 0
    /\ UNCHANGED << variant, page_limit, current_url, pages_parsed, all_offers, session, html,
                    pages_fetched, visited, fetch_failed, outcome, exception,
                    resolveVars, parseVars, fetchVars, exportVars >>

\* olx_scraper.py: the while condition fails, scrape leaves the try block and returns all_offers
ReturnOffers ==
    /\ variant = "olx_scraper"
    /\ pc = "while"
    /\ ~while_condition
    /\ finally
    /\ outcome' = "returned"
    /\ pc' = "done"
    /\ UNCHANGED << variant, page_limit, current_url, pages_parsed, all_offers, html, attempts,
                    pages_fetched, visited, fetch_failed, exception, resolveVars, parseVars, fetchVars, exportVars >>

\* main_oop.py: the while condition fails, scrape returns all_offers
MainOopReturnOffers ==
    /\ variant = "main_oop"
    /\ pc = "while"
    /\ ~while_condition
    /\ outcome' = "returned"
    /\ pc' = "done"
    /\ UNCHANGED << variant, page_limit, current_url, pages_parsed, all_offers, session, html,
                    attempts, pages_fetched, visited, fetch_failed, exception,
                    resolveVars, parseVars, fetchVars, exportVars >>

\* olx_scraper.py fetch_page: a request of the retry loop succeeds with page p
FetchPageOk ==
    /\ variant = "olx_scraper"
    /\ pc = "fetch_page"
    /\ attempts < retries
    /\ \E p \in Pages : html' = Some(p)
    /\ pages_fetched' = pages_fetched + 1
    /\ pc' = "get_offers"
    /\ UNCHANGED << variant, page_limit, current_url, pages_parsed, all_offers, session,
                    attempts, visited, fetch_failed, outcome, exception,
                    resolveVars, parseVars, fetchVars, exportVars >>

\* olx_scraper.py fetch_page: a request fails with a RequestException and
\* the retry loop has iterations left
FetchPageRetry ==
    /\ variant = "olx_scraper"
    /\ pc = "fetch_page"
    /\ attempts + 1 < retries
    /\ attempts' = attempts + 1
    /\ fetch_failed' = TRUE
    /\ UNCHANGED << variant, page_limit, pc, current_url, pages_parsed, all_offers, session,
                    html, pages_fetched, visited, outcome, exception,
                    resolveVars, parseVars, fetchVars, exportVars >>

\* olx_scraper.py fetch_page: the last request of the retry loop fails,
\* fetch_page raises Exception, which leaves scrape through its finally block
FetchPageExhausted ==
    /\ variant = "olx_scraper"
    /\ pc = "fetch_page"
    /\ attempts + 1 = retries
    /\ attempts' = attempts + 1
    /\ fetch_failed' = TRUE
    /\ finally
    /\ outcome' = "raised"
    /\ exception' = "Exception"
    /\ pc' = "done"
    /\ UNCHANGED << variant, page_limit, current_url, pages_parsed, all_offers, html,
                    pages_fetched, visited, resolveVars, parseVars, fetchVars, exportVars >>

\* main_oop.py fetch_page: the request succeeds with page p
MainOopFetchPageOk ==
    /\ variant = "main_oop"
    /\ pc = "fetch_page"
    /\ \E p \in MainOopPages : html' = Some(p)
    /\ pages_fetched' = pages_fetched + 1
    /\ pc' = "get_offers"
    /\ UNCHANGED << variant, page_limit, current_url, pages_parsed, all_offers, session,
                    attempts, visited, fetch_failed, outcome, exception,
                    resolveVars, parseVars, fetchVars, exportVars >>

\* main_oop.py fetch_page: the request fails, the RequestException leaves scrape
MainOopFetchPageFails ==
    /\ variant = "main_oop"
    /\ pc = "fetch_page"
    /\ attempts' = attempts + 1
    /\ fetch_failed' = TRUE
    /\ outcome' = "raised"
    /\ exception' = "RequestException"
    /\ pc' = "done"
    /\ UNCHANGED << variant, page_limit, current_url, pages_parsed, all_offers, session, html,
                    pages_fetched, visited, resolveVars, parseVars, fetchVars, exportVars >>

\* the loop body with the new offers put in front of the collection
body_after_prepend(offers) ==
    /\ all_offers' = offers \o all_offers
    /\ current_url' = get_next_page(html[1])
    /\ pages_parsed' = pages_parsed + 1
    /\ visited' = Append(visited, html[1])
    /\ pc' = "while"

\* the rest of the loop body after get_offers returned offers
body_after(offers) ==
    /\ all_offers' = all_offers \o offers
    /\ current_url' = get_next_page(html[1])
    /\ pages_parsed' = pages_parsed + 1
    /\ visited' = Append(visited, html[1])
    /\ pc' = "while"

\* olx_scraper.py: get_offers returns, the loop body completes
ProcessPage ==
    /\ variant = "olx_scraper"
    /\ pc = "get_offers"
    /\ get_offers_on[html[1]].exc = "None"
    /\ body_after(get_offers_on[html[1]].val)
    /\ UNCHANGED << variant, page_limit, session, html, attempts, pages_fetched,
                    fetch_failed, outcome, exception, resolveVars, parseVars, fetchVars, exportVars >>

\* olx_scraper.py: get_offers raises, the exception leaves scrape through its finally block
ProcessPageRaises ==
    /\ variant = "olx_scraper"
    /\ pc = "get_offers"
    /\ get_offers_on[html[1]].exc # "None"
    /\ finally
    /\ outcome' = "raised"
    /\ exception' = get_offers_on[html[1]].exc
    /\ pc' = "done"
    /\ UNCHANGED << variant, page_limit, current_url, pages_parsed, all_offers, html, attempts,
                    pages_fetched, visited, fetch_failed, resolveVars, parseVars, fetchVars, exportVars >>

\* main_oop.py: get_offers returns, the loop body completes
MainOopProcessPage ==
    /\ variant = "main_oop"
    /\ pc = "get_offers"
    /\ main_oop_get_offers_on[html[1]].exc = "None"
    /\ body_after(main_oop_get_offers_on[html[1]].val)
    /\ UNCHANGED << variant, page_limit, session, html, attempts, pages_fetched,
                    fetch_failed, outcome, exception, resolveVars, parseVars, fetchVars, exportVars >>

\* main_oop.py: get_offers raises, the exception leaves scrape
MainOopProcessPageRaises ==
    /\ variant = "main_oop"
    /\ pc = "get_offers"
    /\ main_oop_get_offers_on[html[1]].exc # "None"
    /\ outcome' = "raised"
    /\ exception' = main_oop_get_offers_on[html[1]].exc
    /\ pc' = "done"
    /\ UNCHANGED << variant, page_limit, current_url, pages_parsed, all_offers, session, html,
                    attempts, pages_fetched, visited, fetch_failed, resolveVars, parseVars, fetchVars, exportVars >>

NextCrawl ==
    \/ EnterLoop
    \/ ReturnOffers
    \/ MainOopReturnOffers
    \/ FetchPageOk
    \/ FetchPageRetry
    \/ FetchPageExhausted
    \/ MainOopFetchPageOk
    \/ MainOopFetchPageFails
    \/ ProcessPage
    \/ ProcessPageRaises
    \/ MainOopProcessPage
    \/ MainOopProcessPageRaises

SpecCrawl == InitCrawl /\ [][NextCrawl]_vars

----------------------------------------------------------------------------
(* Fetcher specification: one call fetch_page(url, retries) of olx_scraper.py *)

\* greatest value of the parameter retries
MaxRetries == 3

\* what self.session.get and raise_for_status can do with one request: answer
\* with a success status, fail in transport, answer with an error status
Responses == {
    [ev |-> "get", error |-> "None", text |-> "<html>page</html>"],
    [ev |-> "get", error |-> "None", text |-> ""],
    [ev |-> "get", error |-> "ConnectionError", text |-> ""],
    [ev |-> "get", error |-> "HTTPError", text |-> "404 Not Found"],
    [ev |-> "get", error |-> "HTTPError", text |-> "<html>500</html>"] }

\* the log entry of time.sleep(self.delay)
Sleep == [ev |-> "sleep", error |-> "None", text |-> ""]

InitFetch ==
    /\ variant = "olx_scraper"
    /\ fp_retries \in 1..MaxRetries
    /\ fp_pc = "sleep"
    /\ fp_i = 0
    /\ fp_log = << >>
    /\ fp_result = Pending
    /\ ResolveIdle
    /\ ParseIdle
    /\ CrawlIdle
    /\ ExportIdle

\* an iteration of the for loop begins: time.sleep(self.delay)
FetchSleep ==
    /\ fp_pc = "sleep"
    /\ fp_i < fp_retries
    /\ fp_log' = Append(fp_log, Sleep)
    /\ fp_pc' = "get"
    /\ UNCHANGED << variant, fp_retries, fp_i, fp_result,
                    resolveVars, parseVars, crawlVars, exportVars >>

\* session.get answers and raise_for_status passes: return response.text
FetchReturn ==
    /\ fp_pc = "get"
    /\ \E r \in Responses :
          /\ r.error = "None"
          /\ fp_log' = Append(fp_log, r)
          /\ fp_result' = Return(r.text)
    /\ fp_pc' = "done"
    /\ UNCHANGED << variant, fp_retries, fp_i, resolveVars, parseVars, crawlVars, exportVars >>

\* the loop runs one iteration more than `retries`
FetchExcept_one_more ==
    /\ fp_pc = "get"
    /\ \E r \in Responses :
          /\ r.error # "None"
          /\ fp_log' = Append(fp_log, r)
    /\ fp_i' = fp_i + 1
    /\ IF fp_i + 1 < fp_retries + 1
       THEN fp_pc' = "sleep" /\ UNCHANGED fp_result
       ELSE fp_pc' = "done" /\ fp_result' = Raise("Exception", "Failed to fetch page")
    /\ UNCHANGED << variant, fp_retries, resolveVars, parseVars, crawlVars, exportVars >>

\* session.get or raise_for_status raises a RequestException: it is logged
\* and the loop goes on; after the last iteration fetch_page raises Exception
FetchExcept ==
    /\ fp_pc = "get"
    /\ \E r \in Responses :
          /\ r.error # "None"
          /\ fp_log' = Append(fp_log, r)
    /\ fp_i' = fp_i + 1
    /\ IF fp_i + 1 < fp_retries
       THEN fp_pc' = "sleep" /\ UNCHANGED fp_result
       ELSE fp_pc' = "done" /\ fp_result' = Raise("Exception", "Failed to fetch page")
    /\ UNCHANGED << variant, fp_retries, resolveVars, parseVars, crawlVars, exportVars >>

NextFetch == FetchSleep \/ FetchReturn \/ FetchExcept

SpecFetch == InitFetch /\ [][NextFetch]_vars

----------------------------------------------------------------------------
(* Exporter specification: calls of AdvertExporter.export_to_txt on one
   collection of adverts *)

\* most adverts in the exported collection
MaxAdverts == 2

\* most files in the working directory
MaxFiles == 3

\* the value of an attribute `state`: a member of the enum State, or a plain str
EnumState(value) == [cls |-> "State", value |-> value]

PlainStr(value) == [cls |-> "str", value |-> value]

RECURSIVE nat_str(_)
\* str(n) for n >= 0
nat_str(n) ==
    IF n < 10 THEN SubSeq(Digits, n + 1, n + 1)
    ELSE nat_str(n \div 10) \o SubSeq(Digits, (n % 10) + 1, (n % 10) + 1)

\* str(n)
int_str(n) == IF n < 0 THEN "-" \o nat_str(-n) ELSE nat_str(n)

\* json.dumps of a str (no character of the texts used needs escaping);
\* a StrEnum member is a str and is written as its value
json_str(s) == "\"" \o s \o "\""

\* json.dumps(advert.__dict__, ensure_ascii=False), olx_scraper.py
json_dumps(advert) ==
    "{\"model\": " \o json_str(advert.model) \o ", \"price\": " \o int_str(advert.price)
        \o ", \"state\": " \o json_str(advert.state.value)
        \o ", \"raw_title\": " \o json_str(advert.raw_title) \o "}"

\* json.dumps(advert_dict, ensure_ascii=False), main_oop.py
main_oop_json_dumps(advert_dict) ==
    "{\"model\": " \o json_str(advert_dict.model) \o ", \"price\": " \o int_str(advert_dict.price)
        \o ", \"state\": " \o json_str(advert_dict.state) \o "}"

\* the names of the files in the working directory
exists(files) == {files[i].name : i \in DOMAIN files}

\* f"{base_name}_{counter}{extension}" for filename = "adverts_export.txt"
numbered(counter) == "adverts_export" \o "_" \o int_str(counter) \o ".txt"

\* the while loop over os.path.exists: the name the export opens
free_filename(files) ==
    IF "adverts_export.txt" \notin exists(files) THEN "adverts_export.txt"
    ELSE numbered(CHOOSE counter \in 1..Len(files) :
                    /\ numbered(counter) \notin exists(files)
                    /\ \A c \in 1..(counter - 1) : numbered(c) \in exists(files))

\* the adverts scrape of olx_scraper.py hands to the exporter
ExportAdverts == {
    [model |-> "RTX 3070", price |-> 1500, state |-> EnumState("used"), raw_title |-> "RTX 3070"],
    [model |-> "", price |-> 2999, state |-> EnumState("error"), raw_title |-> "RTX 3080 Ti 12GB"],
    [model |-> "RTX 3070", price |-> -500, state |-> EnumState("new"), raw_title |-> "RTX 3070"] }

\* the adverts scrape of main_oop.py hands to the exporter
MainOopExportAdverts == {
    [model |-> "RTX 3070", price |-> 1500, state |-> EnumState("Uzywane")],
    [model |-> "Unknown", price |-> 900, state |-> EnumState("Nowe")],
    [model |-> "RTX 3070", price |-> -500, state |-> EnumState("Uszkodzone")] }

\* a file left in the working directory by an earlier run
OldFile == [name |-> "adverts_export.txt", lines |-> <<"{}">>]

InitExport ==
    /\ \/ variant = "olx_scraper" /\ export_adverts \in SeqUpTo(ExportAdverts, MaxAdverts)
       \/ variant = "main_oop" /\ export_adverts \in SeqUpTo(MainOopExportAdverts, MaxAdverts)
    /\ export_files \in {<< >>, << OldFile >>}
    /\ export_result = Pending
    /\ ResolveIdle
    /\ ParseIdle
    /\ CrawlIdle
    /\ FetchIdle

\* the lines the for loop of olx_scraper.py writes
lines_of(adverts) == [i \in DOMAIN adverts |-> json_dumps(adverts[i])]

\* a call export_to_txt(adverts) of olx_scraper.py
ExportToTxt ==
    /\ variant = "olx_scraper"
    /\ pc = "idle"
    /\ Len(export_files) < MaxFiles
    /\ export_files' = Append(export_files, [name |-> free_filename(export_files),
                                             lines |-> lines_of(export_adverts)])
    /\ export_result' = Return("")
    /\ UNCHANGED << variant, export_adverts, resolveVars, parseVars, crawlVars, fetchVars >>

\* the number of adverts the for loop of main_oop.py completes: `.value` is
\* read from the attribute `state`, which only a member of State has
written(adverts) ==
    IF \E i \in DOMAIN adverts : adverts[i].state.cls # "State"
    THEN (CHOOSE i \in DOMAIN adverts :
            /\ adverts[i].state.cls # "State"
            /\ \A j \in 1..(i - 1) : adverts[j].state.cls = "State") - 1
    ELSE Len(adverts)

\* advert_dict["state"] = advert_dict["state"].value: advert_dict is the
\* advert's own __dict__, so the advert's attribute becomes a plain str
assign_value(advert) == [advert EXCEPT !.state = PlainStr(advert.state.value)]

\* the adverts after the for loop of main_oop.py has completed n iterations
after_loop(adverts, n) ==
    [i \in DOMAIN adverts |-> IF i <= n THEN assign_value(adverts[i]) ELSE adverts[i]]

\* the lines the for loop of main_oop.py writes in n iterations
main_oop_lines_of(adverts, n) ==
    [i \in 1..n |-> main_oop_json_dumps([model |-> adverts[i].model, price |-> adverts[i].price,
                                         state |-> adverts[i].state.value])]

\* a call export_to_txt(adverts) of main_oop.py: the file is opened, the loop
\* runs until an advert's state has no attribute `value`
MainOopExportToTxt ==
    /\ variant = "main_oop"
    /\ pc = "idle"
    /\ Len(export_files) < MaxFiles
    /\ LET n == written(export_adverts) IN
          /\ export_files' = Append(export_files,
                [name |-> free_filename(export_files),
                 lines |-> main_oop_lines_of(export_adverts, n)])
          /\ export_adverts' = after_loop(export_adverts, n)
          /\ export_result' =
                IF n = Len(export_adverts) THEN Return("")
                ELSE Raise("AttributeError", "'str' object has no attribute 'value'")
    /\ UNCHANGED << variant, resolveVars, parseVars, crawlVars, fetchVars >>

NextExport == ExportToTxt \/ MainOopExportToTxt

SpecExport == InitExport /\ [][NextExport]_vars

----------------------------------------------------------------------------
(* The offer parser and the crawl together: parse_advert called on one
   offer, or one call of scrape() *)

Init == InitParse \/ InitCrawl

Next == NextParse \/ NextCrawl

Spec == Init /\ [][Next]_vars

\* the normal form the resolver's contract speaks of: lower-cased, spaces removed
Norm(s) == str_remove(str_lower(s), " ")

\* the catalog entries whose normal form occurs in the title's normal form
Contained(t) == {m \in Range(gpu_models) : str_contains(Norm(t), Norm(m))}

\* the entries of a set that no other entry of the set equals or exceeds in length
StrictlyLongest(S) == {m \in S : \A n \in S \ {m} : Len(Norm(n)) < Len(Norm(m))}

\* the catalog entries of which the title is a spelling: the entry itself,
\* in another letter case, or with other spacing
SpelledBy(t) == {m \in Range(gpu_models) : Norm(t) = Norm(m)}

\* C3: a title containing two or more catalog entries, exactly one of them
\* strictly longest, resolves to that longest entry.
C3_LongestMatchWins ==
    (Called /\ Cardinality(Contained(in_title)) >= 2 /\ StrictlyLongest(Contained(in_title)) # {})
        => \E m \in StrictlyLongest(Contained(in_title)) : resolved = Return(m)

\* C4: find_gpu_model of olx_scraper.py maps every spelling of a catalog entry
\* to that entry.
C4_ResolverIdentity ==
    (Called /\ variant = "olx_scraper")
        => \A m \in SpelledBy(in_title) : resolved = Return(m)

\* C5: a title containing exactly one catalog entry resolves to that entry,
\* and a title containing none fails with the no-match ValueError, in both
\* scraper variants.
C5_SingleAndZeroMatch ==
    Called =>
        /\ Cardinality(Contained(in_title)) = 1
              => \E m \in Contained(in_title) : resolved = Return(m)
        /\ Contained(in_title) = {}
              => resolved = Raise("ValueError", "No matches found")

\* a title with a single catalog entry in it has been resolved by olx_scraper.py
C5_Witness ==
    /\ variant = "olx_scraper"
    /\ in_title = "Sapphire RX 580 8GB"
    /\ Contained(in_title) = {"RX 580"}
    /\ resolved = Return("RX 580")

\* C6: in olx_scraper.py, several matches whose greatest length is shared by
\* two of them fail with the multiple-match ValueError, and several matches
\* with one strictly longest resolve to the longest.
C6_EqualLengthTiesAmbiguous ==
    (Called /\ variant = "olx_scraper" /\ Cardinality(Contained(in_title)) >= 2)
        => IF StrictlyLongest(Contained(in_title)) = {}
           THEN resolved = Raise("ValueError", "Multiple matches found")
           ELSE \E m \in StrictlyLongest(Contained(in_title)) : resolved = Return(m)


Parsed == parsed # Pending

\* a card whose price text is present, is no barter offer, and is no integer
\* literal once the suffix, the spaces and the qualifier are stripped
InvalidPrice(card) ==
    /\ card.price.present
    /\ card.price.text # ""
    /\ ~str_contains(card.price.text, "Zamienie")
    /\ int(price_string(card.price.text)).exc # "None"

\* C7: in olx_scraper.py an offer with an invalid price is recorded as a
\* listing with model "" and condition ERROR; no exception leaves parse_advert.
C7_InvalidPriceRecorded ==
    (Parsed /\ variant = "olx_scraper" /\ InvalidPrice(in_offer))
        => /\ parsed.exc = "None"
           /\ Len(parsed.val) = 1
           /\ parsed.val[1].model = ""
           /\ parsed.val[1].state = "error"

\* C8: in olx_scraper.py a card with any of its title, price and condition
\* elements missing makes parse_advert return a listing (empty title for a
\* missing title, ERROR for a missing condition) and raise nothing.
C8_ParserTotalOnMissingElements ==
    (/\ Parsed
     /\ variant = "olx_scraper"
     /\ ~in_offer.h6.present \/ ~in_offer.price.present \/ ~in_offer.state.present
     /\ ~(in_offer.price.present /\ str_contains(in_offer.price.text, "Zamienie")))
        => /\ parsed.exc = "None"
           /\ Len(parsed.val) = 1
           /\ (~in_offer.h6.present => parsed.val[1].raw_title = "")
           /\ (~in_offer.state.present => parsed.val[1].state = "error")


\* the price text of the offer parse_advert of olx_scraper.py was called on
price_text_in == IF in_offer.price.present THEN in_offer.price.text ELSE ""

\* parse_advert returned a listing with price n
YieldsPrice(n) == parsed.exc = "None" /\ Len(parsed.val) = 1 /\ parsed.val[1].price = n

\* C12: parse_advert of olx_scraper.py derives the price by removing the
\* suffix "zl", the spaces and the negotiable qualifier and keeping what
\* precedes a decimal comma: "1 500 zl" yields 1500, "2 999,99 zl" yields
\* 2999, "Cena do negocjacji 2000 zl" yields 2000, and "Zamienie na laptopa"
\* yields the skip marker None.
C12_PriceDerivation ==
    (Parsed /\ variant = "olx_scraper") =>
        /\ price_text_in = "1 500 zl" => YieldsPrice(1500)
        /\ price_text_in = "2 999,99 zl" => YieldsPrice(2999)
        /\ price_text_in = "Cena do negocjacji 2000 zl" => YieldsPrice(2000)
        /\ price_text_in = "Zamienie na laptopa" => parsed = Return(None)

\* the part of C12 the code satisfies: every example but the one where the
\* qualifier precedes the amount
C12_PriceDerivationSuffixOnly ==
    (Parsed /\ variant = "olx_scraper") =>
        /\ price_text_in = "1 500 zl" => YieldsPrice(1500)
        /\ price_text_in = "2 999,99 zl" => YieldsPrice(2999)
        /\ price_text_in = "2000 zl do negocjacji" => YieldsPrice(2000)
        /\ price_text_in = "Zamienie na laptopa" => parsed = Return(None)

\* the listing pages fetch_page has returned so far
Fetched == Range(visited) \cup Range(html)

\* every request made so far has succeeded, the detail-page requests of main_oop.py included
EveryFetchSucceeded ==
    /\ ~fetch_failed
    /\ variant = "main_oop" =>
          \A p \in Fetched : \A i \in DOMAIN p.offers : p.offers[i].detail.ok

\* every page fetched so far carries a next-page link
EveryPageHasNext == \A p \in Fetched : get_next_page(p) # None

\* C1: when every fetch succeeds and every page links to a next page, scrape
\* fetches exactly page_limit listing pages and then returns; it never
\* fetches more than page_limit pages.
C1_CrawlTermination ==
    /\ pages_fetched <= page_limit
    /\ (pc = "done" /\ EveryFetchSucceeded /\ EveryPageHasNext)
          => (outcome = "returned" /\ pages_fetched = page_limit)

RECURSIVE listings_of(_)
\* the listings get_offers of olx_scraper.py extracts from a sequence of pages
listings_of(pages) ==
    IF pages = << >> THEN << >>
    ELSE get_offers_on[Head(pages)].val \o listings_of(Tail(pages))

\* C2: when a page's fetch fails on every attempt of the retry budget, scrape
\* of olx_scraper.py does not raise: it returns the listings of the pages
\* parsed before, and the number of pages visited is the number of those pages.
C2_PartialFailure ==
    (variant = "olx_scraper" /\ pc = "done" /\ attempts = retries)
        => /\ outcome = "returned"
           /\ pages_parsed = Len(visited)
           /\ all_offers = listings_of(visited)

\* the price text on an offer card; main_oop.py reads it from the detail page
price_text_of(card) ==
    IF variant = "olx_scraper"
    THEN (IF card.price.present THEN card.price.text ELSE "")
    ELSE (IF card.detail.h3.present THEN card.detail.h3.text ELSE "")

\* the cards of a page that are no barter offers, in document order
non_barter(p) == SelectSeq(p.offers, LAMBDA card : ~str_contains(price_text_of(card), "Zamienie"))

\* what get_offers of the running variant returned for a visited page
offers_from(p) ==
    IF variant = "olx_scraper" THEN get_offers_on[p].val ELSE main_oop_get_offers_on[p].val

RECURSIVE count_non_barter(_)
count_non_barter(pages) ==
    IF pages = << >> THEN 0
    ELSE Len(non_barter(Head(pages))) + count_non_barter(Tail(pages))

\* C9: the list get_offers returns for a page holds one listing per card that
\* is no barter offer, in document order, and scrape returns as many listings
\* as the visited pages have non-barter cards.
C9_OnlyBarterDropped ==
    /\ \A i \in DOMAIN visited :
          /\ Len(offers_from(visited[i])) = Len(non_barter(visited[i]))
          /\ variant = "olx_scraper" =>
                \A j \in DOMAIN offers_from(visited[i]) :
                    offers_from(visited[i])[j].raw_title = non_barter(visited[i])[j].h6.text
    /\ outcome = "returned" => Len(all_offers) = count_non_barter(visited)

\* C10: whenever scrape is left, by return or by exception, the session has been closed.
C10_SessionReleased == pc = "done" => session = "closed"


\* the requests in fetch_page's log
requests_of(log) == SelectSeq(log, LAMBDA e : e.ev = "get")

\* C11: fetch_page issues at most `retries` requests, sleeps before every
\* request including the first, returns the text of the first request that
\* succeeds and issues none after it, retries after a transport error and
\* after an error status alike, and raises exactly when all `retries`
\* requests have failed.
C11_BoundedRetry ==
    LET reqs == requests_of(fp_log) IN
    /\ Len(reqs) <= fp_retries
    /\ \A k \in DOMAIN fp_log :
          fp_log[k].ev = "get" => (k > 1 /\ fp_log[k - 1] = Sleep)
    /\ \A k \in DOMAIN reqs : reqs[k].error = "None" => k = Len(reqs)
    /\ (reqs # << >> /\ reqs[Len(reqs)].error = "None")
          => (fp_pc = "done" /\ fp_result = Return(reqs[Len(reqs)].text))
    /\ (reqs # << >> /\ reqs[Len(reqs)].error # "None" /\ Len(reqs) < fp_retries)
          => (fp_pc \in {"sleep", "get"} /\ fp_result = Pending)
    /\ fp_result.exc = "Exception"
          <=> (Len(reqs) = fp_retries /\ \A k \in DOMAIN reqs : reqs[k].error # "None")
    /\ fp_pc = "done" <=> fp_result # Pending

\* fetch_page returned the text of its third request after two failures of different kinds
C11_Witness ==
    /\ fp_retries = 3
    /\ fp_pc = "done"
    /\ Len(fp_log) = 6
    /\ fp_log[2].error = "ConnectionError"
    /\ fp_log[4].error = "HTTPError"
    /\ fp_result = Return("<html>page</html>")


----------------------------------------------------------------------------
(* Claims on the parser and the crawl together *)

\* the title of the offer parse_advert of olx_scraper.py was called on
title_in == IF in_offer.h6.present THEN in_offer.h6.text ELSE ""

\* a card that is no barter offer and whose price is no integer literal
\* once stripped: parse_advert raises on it
PriceRaises(card) ==
    LET price_text == IF card.price.present THEN card.price.text ELSE "" IN
    ~str_contains(price_text, "Zamienie") /\ int(price_string(price_text)).exc # "None"

\* a listing whose resolution failed, or one that carries a catalog entry
ErrorOrCatalog(advert) ==
    \/ advert.model = "" /\ advert.state = "error"
    \/ advert.model \in Range(gpu_models)

\* C13: in olx_scraper.py, when find_gpu_model fails on an offer that is no
\* barter offer and whose stripped price text int() accepts, parse_advert
\* returns the listing Advert("", price, ERROR, title); the failure aborts
\* neither the page nor the crawl (get_offers raises only for a card whose
\* price is invalid), and every listing scrape has collected has model ""
\* with state ERROR or a model of the catalog.
C13_ResolutionFailureLocal ==
    variant = "olx_scraper" =>
        /\ (/\ Parsed
            /\ find_gpu_model(title_in).exc # "None"
            /\ ~str_contains(price_text_in, "Zamienie")
            /\ int(price_string(price_text_in)).exc = "None")
              => parsed = Return(Some(Advert("", int(price_string(price_text_in)).val,
                                             "error", title_in)))
        /\ (Parsed /\ parsed.exc = "None" /\ parsed.val # None) => ErrorOrCatalog(parsed.val[1])
        /\ \A i \in DOMAIN all_offers : ErrorOrCatalog(all_offers[i])
        /\ (pc = "get_offers" /\ get_offers_on[html[1]].exc # "None")
              => \E i \in DOMAIN html[1].offers : PriceRaises(html[1].offers[i])
        /\ (pc = "done" /\ outcome = "raised" /\ exception = "ValueError")
              => \E i \in DOMAIN html[1].offers : PriceRaises(html[1].offers[i])

\* scrape of olx_scraper.py returned after two pages; the first listing's
\* title matched two catalog entries, and the crawl went on to a second listing
C13_Witness ==
    /\ variant = "olx_scraper"
    /\ outcome = "returned"
    /\ Len(visited) = 2
    /\ Len(all_offers) = 2
    /\ all_offers[1] = Advert("", 2999, "error", "RTX 3080 Ti 12GB")
    /\ all_offers[2].model = "RTX 3070"
    /\ visited[1].offers # << >>
    /\ visited[2].offers # << >>

\* C14: every listing scrape has collected, and every listing parse_advert
\* returns, has a non-negative integer price, whatever the price text,
\* a text carrying a sign character included.
C14_PriceNonNegative ==
    /\ \A i \in DOMAIN all_offers : all_offers[i].price \in Nat
    /\ (Parsed /\ parsed.exc = "None" /\ variant = "main_oop") => parsed.val.price \in Nat
    /\ (Parsed /\ parsed.exc = "None" /\ variant = "olx_scraper" /\ parsed.val # None)
          => parsed.val[1].price \in Nat

\* C16: in main_oop.py a failure while one offer is processed (its detail
\* page cannot be fetched, its price container has no h3, its condition or
\* its price is not recognised) stays with that offer: get_offers returns
\* for every page, and scrape, once every listing page was fetched, returns.
C16_BadOfferConfined ==
    variant = "main_oop" =>
        /\ pc = "get_offers" => main_oop_get_offers_on[html[1]].exc = "None"
        /\ (pc = "done" /\ ~fetch_failed) => outcome = "returned"

\* C17: in olx_scraper.py a page without the offers container contributes no
\* listing and does not stop the crawl (its next-page link is still
\* followed); a page without pagination list, without forward control or
\* without href on it ends the crawl after that page: scrape returns, with
\* fewer than page_limit pages visited and with all listings accumulated.
C17_StructuralAbsence ==
    variant = "olx_scraper" =>
        /\ \A i \in DOMAIN visited :
              ~visited[i].offers_div => get_offers_on[visited[i]] = Return(<< >>)
        /\ (pc = "while" /\ visited # << >>)
              => current_url = get_next_page(visited[Len(visited)])
        /\ (pc = "done" /\ html # None /\ get_next_page(html[1]) = None)
              => /\ outcome = "returned"
                 /\ visited # << >>
                 /\ visited[Len(visited)] = html[1]
                 /\ all_offers = listings_of(visited)
                 /\ Len(visited) < page_limit

RECURSIVE collected(_)
\* the listings get_offers of the running variant returned for a sequence of pages
collected(pages) ==
    IF pages = << >> THEN << >>
    ELSE offers_from(Head(pages)) \o collected(Tail(pages))

\* C18: in every state of scrape, 0 <= pages_parsed <= page_limit and
\* pages_parsed counts the pages processed; a page is requested only when
\* every page fetched before has been processed, the page before it yielded
\* a next URL and pages_parsed < page_limit; all_offers is the concatenation,
\* in visit order, of the listings of the pages processed so far.
C18_CrawlStateInvariant ==
    pc # "idle" =>
        /\ pages_parsed \in 0..page_limit
        /\ pages_parsed = Len(visited)
        /\ all_offers = collected(visited)
        /\ pc = "fetch_page" =>
              /\ pages_fetched = pages_parsed
              /\ pages_parsed < page_limit
              /\ current_url # None
              /\ visited = << >> => current_url = Some(BASE_URL)
              /\ visited # << >> => /\ get_next_page(visited[Len(visited)]) # None
                                    /\ current_url = get_next_page(visited[Len(visited)])
        /\ pc = "get_offers" => pages_fetched = pages_parsed + 1 /\ pages_parsed < page_limit
        /\ pc = "while" => pages_fetched = pages_parsed

\* the second page has been processed: its listing follows the first page's,
\* and no third page is requested
C18_Witness ==
    /\ pc = "while"
    /\ page_limit = 2
    /\ pages_parsed = 2
    /\ Len(all_offers) = 2
    /\ all_offers[1].price = 1500
    /\ all_offers[2].price # 1500
    /\ all_offers = offers_from(visited[1]) \o offers_from(visited[2])
    /\ ~while_condition

\* an Advert of main_oop.py with every attribute populated
FullyPopulated(advert) ==
    /\ advert.model # ""
    /\ advert.model \in Range(gpu_models) \cup {"Unknown"}
    /\ advert.price \in Int \ {0}
    /\ advert.state \in main_oop_State

\* the detail page shows a price other than 0
HasPrice(detail) ==
    /\ detail.price_div
    /\ detail.h3.present
    /\ int(str_remove(split_0(detail.h3.text, " zl"), " ")).exc = "None"
    /\ int(str_remove(split_0(detail.h3.text, " zl"), " ")).val # 0

\* the first list item with "Stan:" reads "Stan: " and a value of State
HasCondition(detail) ==
    /\ detail.state_ul
    /\ state_lis(detail.li) # << >>
    /\ \E v \in main_oop_State, pre \in {"", " "}, post \in {"", " "} :
          state_lis(detail.li)[1] = "Stan: " \o pre \o v \o post

\* the cards of a page whose detail page has a price and a condition
complete_cards(p) ==
    SelectSeq(p.offers, LAMBDA card : HasPrice(card.detail) /\ HasCondition(card.detail))

\* C19: in main_oop.py every Advert that scrape has collected, and every
\* Advert parse_advert returns, has a non-empty model that is a catalog entry
\* or "Unknown", a non-zero integer price and a state of the enum State; an
\* offer whose detail page lacks a price, has price 0 or lacks a recognizable
\* "Stan:" condition contributes no Advert.
C19_FullyPopulated ==
    variant = "main_oop" =>
        /\ \A i \in DOMAIN all_offers : FullyPopulated(all_offers[i])
        /\ (Parsed /\ parsed.exc = "None") => FullyPopulated(parsed.val)
        /\ (Parsed /\ ~(HasPrice(in_offer) /\ HasCondition(in_offer))) => parsed.exc # "None"
        /\ \A i \in DOMAIN visited :
              Len(offers_from(visited[i])) <= Len(complete_cards(visited[i]))

\* scrape of main_oop.py returned after two pages: the offer of the first
\* page became an Advert, the offer of the second, whose detail page has no
\* condition list, did not
C19_Witness ==
    /\ variant = "main_oop"
    /\ outcome = "returned"
    /\ Len(visited) = 2
    /\ Len(visited[1].offers) = 1
    /\ Len(visited[2].offers) = 1
    /\ ~visited[2].offers[1].detail.state_ul
    /\ all_offers = << main_oop_Advert("RTX 3070", 1500, "Uzywane") >>

----------------------------------------------------------------------------
(* Claims on the exporter *)

\* the files written by the calls of export_to_txt
exported == SelectSeq(export_files, LAMBDA f : f # OldFile)

\* C15: export_to_txt leaves every advert of the collection unchanged (model,
\* price, and the value and the type of state), so every export of the
\* collection succeeds and all exports write the same records.
C15_ListingsImmutable ==
    /\ [][export_adverts' = export_adverts]_vars
    /\ [](/\ export_result.exc \in {"pending", "None"}
          /\ \A i, j \in DOMAIN exported : exported[i].lines = exported[j].lines)
====
